---- MODULE Spec2Model ----
(***************************************************************************)
(* Model of core/device.c: the fake dive profile generator fake_dc (with   *)
(* fill_samples and fill_samples_no_avg) and the device id helpers         *)
(* set_dc_deviceid / match_id.                                             *)
(*                                                                         *)
(* The C code computes the profile break points in double precision and    *)
(* rounds them with lrint.  The model carries the arithmetic out exactly   *)
(* as IEEE-754 binary64 does (every operation rounded to nearest, ties to  *)
(* even; lrint in the default rounding mode rounds to nearest, ties to     *)
(* even), on integers that stay below 2^31.                                *)
(***************************************************************************)
EXTENDS Integers, Sequences, FiniteSets, TLC

(***************************************************************************)
(* binary64 values.  A double is a record [sg, hi, lo, ex] standing for    *)
(* sg * (hi * 2^27 + lo) * 2^ex with sg in {1, -1}; the 53 bit significand *)
(* hi * 2^27 + lo is normalised (2^25 <= hi < 2^26, 0 <= lo < 2^27), or    *)
(* the value is zero (hi = lo = 0).  The values of the program stay far    *)
(* from the subnormal range, infinities and NaN.                           *)
(***************************************************************************)
B27 == 2^27
B14 == 2^14

DZero == [sg |-> 1, hi |-> 0, lo |-> 0, ex |-> 0]

IsZero(a) == a.hi = 0 /\ a.lo = 0

\* The number of bits of n, 0 <= n < 2^30.
BitLen(n) == CHOOSE k \in 0..30 : n < 2^k /\ (k = 0 \/ n >= 2^(k - 1))

\* Set the lowest bit of l when bits were lost below it (the sticky bit).
Sticky(l, lost) == IF lost /\ l % 2 = 0 THEN l + 1 ELSE l

\* Shift the pair <<h, l>> (h * 2^27 + l, h < 2^30) right by k >= 0 bits;
\* the bits shifted out are or-ed into the lowest bit.
ShiftRightSticky(h, l, k) ==
    IF k >= 57 THEN <<0, Sticky(0, h # 0 \/ l # 0)>>
    ELSE IF k >= 27
    THEN <<0, Sticky(h \div 2^(k - 27), h % 2^(k - 27) # 0 \/ l # 0)>>
    ELSE <<h \div 2^k,
           Sticky((h % 2^k) * 2^(27 - k) + (l \div 2^k), l % 2^k # 0)>>

\* Shift the pair <<h, l>> left by k bits, 0 <= k <= 27.
ShiftLeft(h, l, k) ==
    <<h * 2^k + (l \div 2^(27 - k)), (l % 2^(27 - k)) * 2^k>>

\* The extended significand n (56 bits, the three lowest being guard, round
\* and sticky), scaled by 2^e, rounded to nearest, ties to even.
Pack(s, n, e) ==
    LET mh == n[1] \div 8
        ml == (n[1] % 8) * (B27 \div 8) + (n[2] \div 8)
        up == n[2] % 8 > 4 \/ (n[2] % 8 = 4 /\ (n[2] \div 8) % 2 = 1)
    IN IF ~up THEN [sg |-> s, hi |-> mh, lo |-> ml, ex |-> e + 3]
       ELSE IF ml + 1 < B27
       THEN [sg |-> s, hi |-> mh, lo |-> ml + 1, ex |-> e + 3]
       ELSE IF mh + 1 < 2^26
       THEN [sg |-> s, hi |-> mh + 1, lo |-> 0, ex |-> e + 3]
       ELSE [sg |-> s, hi |-> 2^25, lo |-> 0, ex |-> e + 4]

\* Normalise <<h, l>> (h # 0) to 56 bits by a shift of sh bits to the left
\* (to the right when sh = -1), and round.
Normalise(s, h, l, e, sh) ==
    Pack(s,
         IF sh < 0 THEN ShiftRightSticky(h, l, 1)
         ELSE IF sh <= 27 THEN ShiftLeft(h, l, sh)
         ELSE ShiftLeft(h * B27 + l, 0, sh - 27),
         e - sh)

\* Round the extended significand <<h, l>> (three extra low bits), scaled by
\* 2^e, to a double of sign s.
RoundPack(s, h, l, e) ==
    IF h = 0 /\ l = 0 THEN DZero
    ELSE IF h = 0 THEN Normalise(s, l, 0, e - 27, 29 - BitLen(l))
    ELSE Normalise(s, h, l, e, 29 - BitLen(h))

\* (double)n for an int n.
FromInt(n) ==
    IF n < 0 THEN RoundPack(-1, (-n) \div 2^24, ((-n) % 2^24) * 8, -3)
    ELSE RoundPack(1, n \div 2^24, (n % 2^24) * 8, -3)

\* Numbers of up to 70 bits as five limbs <<x0, .., x4>> in base 2^14
\* (x0 the lowest), for the long division.
LimbLess(x, y) ==
    \E i \in 1..5 : x[i] < y[i] /\ \A j \in (i + 1)..5 : x[j] = y[j]

\* x - y for limbs x >= y.
LimbSub(x, y) ==
    LET t1 == x[1] - y[1]
        t2 == x[2] - y[2] - (IF x[1] < y[1] THEN 1 ELSE 0)
        t3 == x[3] - y[3] - (IF t2 < 0 THEN 1 ELSE 0)
        t4 == x[4] - y[4] - (IF t3 < 0 THEN 1 ELSE 0)
        t5 == x[5] - y[5] - (IF t4 < 0 THEN 1 ELSE 0)
    IN <<t1 % B14, t2 % B14, t3 % B14, t4 % B14, t5>>

\* x * q for limbs x (x[5] = 0) and a digit q < 2^14.
LimbScale(x, q) ==
    LET c1 == x[1] * q
        c2 == x[2] * q + (c1 \div B14)
        c3 == x[3] * q + (c2 \div B14)
        c4 == x[4] * q + (c3 \div B14)
    IN <<c1 % B14, c2 % B14, c3 % B14, c4 % B14, c4 \div B14>>

\* The digit q and the product p = q * d, once more corrected.
DivCorrect2(r, d, q, p) ==
    IF LimbLess(r, p) THEN <<q - 1, LimbSub(r, LimbSub(p, d))>>
    ELSE <<q, LimbSub(r, p)>>

\* The estimated digit q and the product p = q * d, corrected.
DivCorrect(r, d, q, p) ==
    IF LimbLess(r, p) THEN DivCorrect2(r, d, q - 1, LimbSub(p, d))
    ELSE <<q, LimbSub(r, p)>>

\* The digit estimated from the leading limbs, with its product.
DivEstimate(r, d, q) == DivCorrect(r, d, q, LimbScale(d, q))

\* One digit of the long division of r by d (d[4] >= 2^13, r < d * 2^14):
\* the digit q = r \div d is estimated from the leading limbs and corrected
\* (the estimate is at most 2 too large); the result is <<q, r - q * d>>.
DivDigit(r, d) ==
    IF (r[5] * B14 + r[4]) \div d[4] > B14 - 1
    THEN DivEstimate(r, d, B14 - 1)
    ELSE DivEstimate(r, d, (r[5] * B14 + r[4]) \div d[4])

\* The limbs of 8 * (hi * 2^27 + lo) for a 53 bit significand.
Limbs8(a) ==
    <<(a.lo % 2^11) * 8,
      (a.lo \div 2^11) % B14,
      (a.lo \div 2^25) + (a.hi % 2^12) * 4,
      a.hi \div 2^12,
      0>>

\* The digits of the long division of r by d, n + 1 of them, followed by
\* whether a remainder is left.
RECURSIVE DivDigits(_, _, _)
DivNext(d, n, step) ==
    IF n = 0 THEN <<step[1], step[2] # <<0, 0, 0, 0, 0>>>>
    ELSE <<step[1]>>
         \o DivDigits(<<0, step[2][1], step[2][2], step[2][3], step[2][4]>>,
                      d, n - 1)

DivDigits(r, d, n) == DivNext(d, n, DivDigit(r, d))

\* The 57 quotient bits q of a long division, scaled by 2^e, as a double.
DivPack(s, q, e) ==
    RoundPack(s, (q[4] \div 2^13) + q[3] * 2 + q[2] * 2^15 + q[1] * 2^29,
              Sticky(q[5] + (q[4] % 2^13) * B14, q[6]), e)

\* a / b in binary64 (b is not zero): 57 quotient bits by long division, the
\* remainder as sticky bit, then rounding.
FDiv(a, b) ==
    IF IsZero(a) THEN DZero
    ELSE DivPack(a.sg * b.sg, DivDigits(Limbs8(a), Limbs8(b), 4),
                 a.ex - b.ex - 56)

\* The four 14 bit limbs of a 53 bit significand.
Limbs(a) ==
    <<a.lo % B14,
      (a.lo \div B14) + (a.hi % 2) * 2^13,
      (a.hi \div 2) % B14,
      a.hi \div 2^15>>

\* The product of the limbs x and y: its limbs above 2^42 (the highest one
\* not reduced), and whether a bit is set below 2^49.
MulLimbs(x, y) ==
    LET c0 == x[1] * y[1]
        c1 == x[1] * y[2] + x[2] * y[1] + (c0 \div B14)
        c2 == x[1] * y[3] + x[2] * y[2] + x[3] * y[1] + (c1 \div B14)
        c3 == x[1] * y[4] + x[2] * y[3] + x[3] * y[2] + x[4] * y[1]
              + (c2 \div B14)
        c4 == x[2] * y[4] + x[3] * y[3] + x[4] * y[2] + (c3 \div B14)
        c5 == x[3] * y[4] + x[4] * y[3] + (c4 \div B14)
        c6 == x[4] * y[4] + (c5 \div B14)
    IN <<c3 % B14, c4 % B14, c5 % B14, c6,
         c0 % B14 # 0 \/ c1 % B14 # 0 \/ c2 % B14 # 0 \/ c3 % 2^7 # 0>>

\* The product p of two significands, scaled by 2^e, as a double.
MulPack(s, p, e) ==
    RoundPack(s, (p[3] \div 2^6) + p[4] * 2^8,
              Sticky((p[1] \div 2^7) + p[2] * 2^7 + (p[3] % 2^6) * 2^21, p[5]),
              e)

\* a * b in binary64.
FMul(a, b) ==
    IF IsZero(a) \/ IsZero(b) THEN DZero
    ELSE MulPack(a.sg * b.sg, MulLimbs(Limbs(a), Limbs(b)), a.ex + b.ex + 49)

\* |a| < |b| for doubles.
MagLess(a, b) ==
    IF IsZero(b) THEN FALSE
    ELSE IF IsZero(a) THEN TRUE
    ELSE a.ex < b.ex
         \/ (a.ex = b.ex /\ (a.hi < b.hi \/ (a.hi = b.hi /\ a.lo < b.lo)))

\* The sum of the extended significands <<bh, bl>> of sign bs and x of sign
\* xs, x not the larger, scaled by 2^e.
AddAligned(bs, bh, bl, xs, x, e) ==
    IF bs = xs
    THEN RoundPack(bs, bh + x[1] + ((bl + x[2]) \div B27), (bl + x[2]) % B27,
                   e)
    ELSE IF bl >= x[2] THEN RoundPack(bs, bh - x[1], bl - x[2], e)
    ELSE RoundPack(bs, bh - x[1] - 1, bl + B27 - x[2], e)

\* big + sml for doubles |big| >= |sml| > 0: sml is aligned to big with three
\* extra bits.
AddOrdered(big, sml) ==
    AddAligned(big.sg, big.hi * 8 + (big.lo \div 2^24), (big.lo % 2^24) * 8,
               sml.sg,
               ShiftRightSticky(sml.hi * 8 + (sml.lo \div 2^24),
                                (sml.lo % 2^24) * 8, big.ex - sml.ex),
               big.ex - 3)

\* a + b in binary64.
FAdd(a, b) ==
    IF IsZero(a) THEN b
    ELSE IF IsZero(b) THEN a
    ELSE IF MagLess(a, b) THEN AddOrdered(b, a)
    ELSE AddOrdered(a, b)

\* -a.
FNeg(a) == [sg |-> -a.sg, hi |-> a.hi, lo |-> a.lo, ex |-> a.ex]

\* a - b in binary64.
FSub(a, b) == FAdd(a, FNeg(b))

\* a > b for doubles.
FGreater(a, b) ==
    IF IsZero(a) /\ IsZero(b) THEN FALSE
    ELSE IF IsZero(a) THEN b.sg = -1
    ELSE IF IsZero(b) THEN a.sg = 1
    ELSE IF a.sg # b.sg THEN a.sg = 1
    ELSE IF a.sg = 1 THEN MagLess(b, a) ELSE MagLess(a, b)

\* MAX(a, b) of dive.h: ((a) > (b) ? (a) : (b)).
MAX(a, b) == IF FGreater(a, b) THEN a ELSE b

\* The integer x[1] * 2^25 + x[2] \div 4 with its two extra bits (guard,
\* sticky) rounded to nearest, ties to even.
RoundInt(x) ==
    LET i == x[1] * 2^25 + (x[2] \div 4)
    IN IF x[2] % 4 = 3 \/ (x[2] % 4 = 2 /\ i % 2 = 1) THEN i + 1 ELSE i

\* lrint(a): the nearest integer, ties to even (the default rounding mode).
\* The values of the program are below 2^31 in magnitude, so a.ex < 0.
lrint(a) ==
    IF IsZero(a) THEN 0
    ELSE a.sg * RoundInt(ShiftRightSticky(a.hi * 4 + (a.lo \div 2^25),
                                          (a.lo % 2^25) * 4, -a.ex))

(***************************************************************************)
(* The inputs of the model.  fake_dc reads duration (seconds), maxdepth    *)
(* and meandepth (mm) of the dive computer; every value up to the Small    *)
(* bounds is tried, and the listed dives on both sides of the thresholds   *)
(* of the code (10 m, 10 min, the 5 m stop, the sanitising of the average) *)
(* and of the examples.                                                    *)
(***************************************************************************)
SmallDuration == 3
SmallDepth == 3
SmallMean == 3

Durations == (0..SmallDuration) \cup {10, 60, 500, 599, 600, 601, 1200, 1800,
                                      3000}

Depths == (0..SmallDepth)
          \cup {41, 42, 125, 1000, 2625, 4999, 5000, 6000, 8000, 9999,
                10000, 12000, 18000, 30000, 100000}

Means == (0..SmallMean)
         \cup {100, 500, 1000, 2000, 3000, 6000, 9000, 15000, 30000, 100000}

\* The device table: ids up to MaxDeviceId, at most MaxEntries entries are
\* presented to match_id by one call_for_each_dc.
MaxDeviceId == 2
MaxEntries == 2

NULL == "<NULL>"
Models == {"Aladin", "Vyper"}
Strings == {"", "1234", "5678"}

OrNull(S) == S \cup {NULL}

DeviceEntries ==
    [model : OrNull(Models), deviceid : 0..MaxDeviceId,
     serial : OrNull(Strings), firmware : OrNull(Strings)]

VARIABLES
    duration, maxdepth, meandepth,   \* dc->duration.seconds, maxdepth.mm, meandepth.mm
    samples, sample,                 \* dc->samples, dc->sample[0..5]
    last_manual_time,                \* dc->last_manual_time.seconds
    deviceid, model, serial, fw_version,  \* dc->deviceid, model, serial, fw_version
    pc,                              \* the position in fake_dc / set_dc_deviceid
    max_t, max_d, avg_d,             \* the locals of fake_dc
    arg,                             \* the arguments of the running call
    presented                        \* entries call_for_each_dc has presented

dive_vars == <<duration, maxdepth, meandepth, samples, sample,
               last_manual_time, max_t, max_d, avg_d>>
device_vars == <<deviceid, model, serial, fw_version, presented>>
vars == <<dive_vars, device_vars, pc, arg>>

NoArg == [model |-> NULL, deviceid |-> 0, serial |-> NULL, firmware |-> NULL]

\* struct sample, the fields fake_dc touches.
ZeroSample == [time |-> 0, depth |-> 0, bearing |-> 0, ndl |-> 0]

(***************************************************************************)
(* fill_samples: one candidate six point profile.                          *)
(***************************************************************************)
\* t_frac = max_t * (1 - avg_d / (double)max_d)
TFrac(p_max_d, p_avg_d, p_max_t) ==
    FMul(FromInt(p_max_t),
         FSub(FromInt(1), FDiv(FromInt(p_avg_d), FromInt(p_max_d))))

\* t1 = lrint(max_d / slope)
T1(p_max_d, slope) == lrint(FDiv(FromInt(p_max_d), slope))

\* t4 = lrint(max_t - t1 * d_frac)
T4(p_max_t, t1, d_frac) ==
    lrint(FSub(FromInt(p_max_t), FMul(FromInt(t1), d_frac)))

\* T3 with the descent time t1 not taken off the time at depth:
\* lrint(t4 - t_frac / (1 - d_frac)).
T3WithoutDescent(t4, t_frac, t1, d_frac) ==
    lrint(FSub(FromInt(t4), FDiv(t_frac, FSub(FromInt(1), d_frac))))

\* t3 = lrint(t4 - (t_frac - t1) / (1 - d_frac))
T3(t4, t_frac, t1, d_frac) ==
    lrint(FSub(FromInt(t4),
               FDiv(FSub(t_frac, FromInt(t1)), FSub(FromInt(1), d_frac))))

\* T2 with the whole descent time for the transition: lrint(t3 - t1).
T2WholeDescent(t3, t1, d_frac) == lrint(FSub(FromInt(t3), FromInt(t1)))

\* t2 = lrint(t3 - t1 * (1 - d_frac))
T2(t3, t1, d_frac) ==
    lrint(FSub(FromInt(t3), FMul(FromInt(t1), FSub(FromInt(1), d_frac))))

\* The times <<t1, t2, t3, t4>> of fill_samples, in the order the code
\* computes them: t1, then t4, t3 and t2.
WithT2(d_frac, t) == <<t[1], T2(t[2], t[1], d_frac), t[2], t[3]>>

WithT3(t_frac, d_frac, t) == <<t[1], T3(t[2], t_frac, t[1], d_frac), t[2]>>

WithT4(p_max_t, d_frac, t1) == <<t1, T4(p_max_t, t1, d_frac)>>

Times(p_max_d, p_avg_d, p_max_t, slope, d_frac) ==
    WithT2(d_frac,
           WithT3(TFrac(p_max_d, p_avg_d, p_max_t), d_frac,
                  WithT4(p_max_t, d_frac, T1(p_max_d, slope))))

\* StoreTimes with the stores made before the check of the times.
StoreTimesBeforeCheck(s, p_max_d, p_max_t, t, d) ==
    [ok |-> ~(t[1] < 0 \/ t[1] > t[2] \/ t[2] > t[3] \/ t[3] > t[4]
              \/ t[4] > p_max_t),
     s |-> [s EXCEPT ![1].time = t[1], ![1].depth = p_max_d,
                     ![2].time = t[2], ![2].depth = p_max_d,
                     ![3].time = t[3], ![3].depth = d,
                     ![4].time = t[4], ![4].depth = d]]

\* The check of the times and the stores of fill_samples: the return value
\* (ok) and the samples after the call.
StoreTimes(s, p_max_d, p_max_t, t, d) ==
    IF t[1] < 0 \/ t[1] > t[2] \/ t[2] > t[3] \/ t[3] > t[4]
       \/ t[4] > p_max_t
    THEN [ok |-> FALSE, s |-> s]
    ELSE [ok |-> TRUE,
          s |-> [s EXCEPT ![1].time = t[1], ![1].depth = p_max_d,
                          ![2].time = t[2], ![2].depth = p_max_d,
                          ![3].time = t[3], ![3].depth = d,
                          ![4].time = t[4], ![4].depth = d]]

fill_samples(s, p_max_d, p_avg_d, p_max_t, slope, d_frac) ==
    StoreTimes(s, p_max_d, p_max_t,
               Times(p_max_d, p_avg_d, p_max_t, slope, d_frac),
               lrint(FMul(FromInt(p_max_d), d_frac)))

(***************************************************************************)
(* fill_samples_no_avg: no average depth is known; a trapezoid for         *)
(* shallow or short dives, else a profile with a 3 minute stop at 5 m.     *)
(* descent is lrint(max_d / slope), stop is lrint(5000 / slope).           *)
(***************************************************************************)
\* StoreNoAvg with the start of the stop taken from the descent time.
StoreNoAvgStopAtDescent(s, p_max_d, p_max_t, descent, stop) ==
    IF p_max_d < 10000 \/ p_max_t < 600
    THEN [s EXCEPT ![1].time = descent, ![1].depth = p_max_d,
                   ![2].time = p_max_t - descent, ![2].depth = p_max_d]
    ELSE [s EXCEPT ![1].time = descent, ![1].depth = p_max_d,
                   ![2].time = p_max_t - descent - 180, ![2].depth = p_max_d,
                   ![3].time = p_max_t - descent - 180, ![3].depth = 5000,
                   ![4].time = p_max_t - stop, ![4].depth = 5000]

StoreNoAvg(s, p_max_d, p_max_t, descent, stop) ==
    IF p_max_d < 10000 \/ p_max_t < 600
    THEN [s EXCEPT ![1].time = descent, ![1].depth = p_max_d,
                   ![2].time = p_max_t - descent, ![2].depth = p_max_d]
    ELSE [s EXCEPT ![1].time = descent, ![1].depth = p_max_d,
                   ![2].time = p_max_t - descent - 180, ![2].depth = p_max_d,
                   ![3].time = p_max_t - stop - 180, ![3].depth = 5000,
                   ![4].time = p_max_t - stop, ![4].depth = 5000]

fill_samples_no_avg(s, p_max_d, p_max_t, slope) ==
    StoreNoAvg(s, p_max_d, p_max_t, lrint(FDiv(FromInt(p_max_d), slope)),
               lrint(FDiv(FromInt(5000), slope)))

\* The slope and d_frac of the three attempts of fake_dc.
Slope1 == FDiv(FromInt(5000), FromInt(60))
Frac1 == FDiv(FromInt(33), FromInt(100))
Slope2 == FDiv(FromInt(10000), FromInt(60))
Frac2 == FDiv(FromInt(10), FromInt(100))
Slope3 == FromInt(10000)
Frac3 == FDiv(FromInt(1), FromInt(100))

\* The slope fake_dc passes to fill_samples_no_avg.
NoAvgSlope(p_max_d, p_max_t) ==
    MAX(FDiv(FMul(FromInt(2), FromInt(p_max_d)), FromInt(p_max_t)), Slope1)

\* Skeleton without the loop that sets bearing and ndl to -1.
SkeletonWithoutLoop(p_max_t) ==
    [i \in 0..5 |->
        [time |-> IF i = 5 THEN p_max_t ELSE 0, depth |-> 0,
         bearing |-> 0, ndl |-> 0]]

\* The six samples after the memset and the two loops of fake_dc.
Skeleton(p_max_t) ==
    [i \in 0..5 |->
        [time |-> IF i = 5 THEN p_max_t ELSE 0, depth |-> 0,
         bearing |-> -1, ndl |-> -1]]

\* SaneAverage with the replacement capped at two thirds of the depth.
SaneAverageCapped(p_max_d, p_avg_d) ==
    LET a1 == IF p_avg_d < p_max_d \div 10 \/ p_avg_d >= p_max_d
              THEN (IF (p_max_d + 10000) \div 3 > (p_max_d * 2) \div 3
                    THEN (p_max_d * 2) \div 3
                    ELSE (p_max_d + 10000) \div 3)
              ELSE p_avg_d
    IN IF a1 = 0 THEN 1 ELSE a1

\* The average depth the attempts use.
SaneAverage(p_max_d, p_avg_d) ==
    LET a1 == IF p_avg_d < p_max_d \div 10 \/ p_avg_d >= p_max_d
              THEN (IF (p_max_d + 10000) \div 3 > p_max_d
                    THEN (p_max_d * 2) \div 3
                    ELSE (p_max_d + 10000) \div 3)
              ELSE p_avg_d
    IN IF a1 = 0 THEN 1 ELSE a1

\* IsEmpty without the test of the depth.
IsEmptyTimeOnly(p_max_t, p_max_d) == p_max_t = 0

\* The test for an empty profile: !max_t || !max_d.
IsEmpty(p_max_t, p_max_d) == p_max_t = 0 \/ p_max_d = 0

\* Collapse without the store of max_t into sample 3.
CollapseCountOnly(f, p_max_t) ==
    IF f[3].time = 0
    THEN [samples |-> 4, sample |-> f]
    ELSE [samples |-> 6, sample |-> f]

\* After fill_samples_no_avg: a profile whose sample 3 has time 0 is "just a
\* 4 point profile"; the count and the samples that result.
Collapse(f, p_max_t) ==
    IF f[3].time = 0
    THEN [samples |-> 4, sample |-> [f EXCEPT ![3].time = p_max_t]]
    ELSE [samples |-> 6, sample |-> f]

(***************************************************************************)
(* fake_dc up to its first attempt: the skeleton, the empty profile, the   *)
(* profile without an average depth, the sanitising of the average.        *)
(***************************************************************************)
FakeDcBegin ==
    /\ pc = "idle"
    /\ max_t' = duration
    /\ max_d' = maxdepth
    /\ IF IsEmpty(duration, maxdepth)
       THEN /\ samples' = 0
            /\ sample' = Skeleton(duration)
            /\ avg_d' = meandepth
            /\ pc' = "done"
            /\ UNCHANGED last_manual_time
       ELSE /\ last_manual_time' = duration
            /\ IF meandepth = 0
               THEN \E f \in {Collapse(fill_samples_no_avg(Skeleton(duration),
                                           maxdepth, duration,
                                           NoAvgSlope(maxdepth, duration)),
                                       duration)} :
                       /\ samples' = f.samples
                       /\ sample' = f.sample
                       /\ avg_d' = meandepth
                       /\ pc' = "done"
               ELSE /\ samples' = 6
                    /\ sample' = Skeleton(duration)
                    /\ avg_d' = SaneAverage(maxdepth, meandepth)
                    /\ pc' = "attempt1"
    /\ UNCHANGED <<duration, maxdepth, meandepth, device_vars, arg>>

\* One call of fill_samples by fake_dc: return when it succeeds, else go on.
TryFill(slope, d_frac, next) ==
    /\ \E f \in {fill_samples(sample, max_d, avg_d, max_t, slope, d_frac)} :
          /\ sample' = f.s
          /\ pc' = IF f.ok THEN "done" ELSE next
    /\ UNCHANGED <<duration, maxdepth, meandepth, samples, last_manual_time,
                   max_t, max_d, avg_d, device_vars, arg>>

\* The three attempts of fake_dc, in the order of the code.
Attempt1 ==
    /\ pc = "attempt1"
    /\ TryFill(Slope1, Frac1, "attempt2")

Attempt2 ==
    /\ pc = "attempt2"
    /\ TryFill(Slope2, Frac2, "attempt3")

Attempt3 ==
    /\ pc = "attempt3"
    /\ TryFill(Slope3, Frac3, "done")

\* match_id without the tests that the fields of the dive computer are unset.
match_id_overwrite(e) ==
    IF deviceid # e.deviceid
    THEN <<serial, fw_version>>
    ELSE IF e.model = NULL \/ model = NULL \/ model # e.model
    THEN <<serial, fw_version>>
    ELSE <<IF e.serial # NULL THEN e.serial ELSE serial,
           IF e.firmware # NULL THEN e.firmware ELSE fw_version>>

(***************************************************************************)
(* match_id: the callback of call_for_each_dc.  The result is the serial   *)
(* and the firmware version of the dive computer after the call.           *)
(***************************************************************************)
match_id(e) ==
    IF deviceid # e.deviceid
    THEN <<serial, fw_version>>
    ELSE IF e.model = NULL \/ model = NULL \/ model # e.model
    THEN <<serial, fw_version>>
    ELSE <<IF e.serial # NULL /\ serial = NULL THEN e.serial ELSE serial,
           IF e.firmware # NULL /\ fw_version = NULL THEN e.firmware
           ELSE fw_version>>

\* set_dc_deviceid up to the call of call_for_each_dc.
SetDcDeviceid(id) ==
    /\ pc = "idle"
    /\ arg' = [NoArg EXCEPT !.deviceid = id]
    /\ IF id # 0
       THEN deviceid' = id /\ pc' = "for_each"
       ELSE deviceid' = deviceid /\ pc' = "done"
    /\ UNCHANGED <<dive_vars, model, serial, fw_version, presented>>

\* call_for_each_dc presents one more entry of the device table to match_id.
ForEachDc(e) ==
    /\ pc = "for_each"
    /\ presented < MaxEntries
    /\ arg' = e
    /\ presented' = presented + 1
    /\ serial' = match_id(e)[1]
    /\ fw_version' = match_id(e)[2]
    /\ UNCHANGED <<dive_vars, deviceid, model, pc>>

\* call_for_each_dc and set_dc_deviceid return.
ForEachDcDone ==
    /\ pc = "for_each"
    /\ pc' = "done"
    /\ UNCHANGED <<dive_vars, device_vars, arg>>

TypeInit ==
    /\ samples = 0
    /\ sample = [i \in 0..5 |-> ZeroSample]
    /\ last_manual_time = 0
    /\ pc = "idle"
    /\ max_t = 0 /\ max_d = 0 /\ avg_d = 0
    /\ arg = NoArg
    /\ presented = 0

\* A dive computer without samples, as fake_dc finds it.
Init ==
    /\ duration \in Durations
    /\ maxdepth \in Depths
    /\ meandepth \in Means
    /\ deviceid = 0 /\ model = NULL /\ serial = NULL /\ fw_version = NULL
    /\ TypeInit

Next == FakeDcBegin \/ Attempt1 \/ Attempt2 \/ Attempt3

Spec == Init /\ [][Next]_vars

\* A dive computer as set_dc_deviceid finds it.
DeviceInit ==
    /\ duration = 0 /\ maxdepth = 0 /\ meandepth = 0
    /\ deviceid \in 0..MaxDeviceId
    /\ model \in OrNull(Models)
    /\ serial \in OrNull(Strings)
    /\ fw_version \in OrNull(Strings)
    /\ TypeInit

DeviceNext ==
    \/ \E id \in 0..MaxDeviceId : SetDcDeviceid(id)
    \/ \E e \in DeviceEntries : ForEachDc(e)
    \/ ForEachDcDone

DeviceSpec == DeviceInit /\ [][DeviceNext]_vars

(***************************************************************************)
(* The vocabulary of the properties.                                       *)
(***************************************************************************)
Done == pc = "done"

\* fake_dc took the branch with an average depth / without one.
AvgBranch == duration # 0 /\ maxdepth # 0 /\ meandepth # 0
NoAvgBranch == duration # 0 /\ maxdepth # 0 /\ meandepth = 0

\* The slope and d_frac of attempt k, and the slope as the fraction
\* SlopeNum(k) / SlopeDen(k) of integers (mm per second).
SlopeOf(k) == IF k = 1 THEN Slope1 ELSE IF k = 2 THEN Slope2 ELSE Slope3
FracOf(k) == IF k = 1 THEN Frac1 ELSE IF k = 2 THEN Frac2 ELSE Frac3
SlopeNum(k) == IF k = 1 THEN 5000 ELSE 10000
SlopeDen(k) == IF k = 3 THEN 1 ELSE 60

\* The rounded times of candidate k, and the order an accepted one has.
Candidate(k) == Times(max_d, avg_d, max_t, SlopeOf(k), FracOf(k))
InOrder(t) ==
    0 <= t[1] /\ t[1] <= t[2] /\ t[2] <= t[3] /\ t[3] <= t[4] /\ t[4] <= max_t

\* fake_dc has returned from the branch with an average depth, and k is the
\* first candidate whose times are in order / none is.
AcceptedBy(k) ==
    /\ Done /\ AvgBranch
    /\ InOrder(Candidate(k))
    /\ \A j \in 1..(k - 1) : ~InOrder(Candidate(j))
AllRejected ==
    Done /\ AvgBranch /\ \A k \in 1..3 : ~InOrder(Candidate(k))

Abs(x) == IF x < 0 THEN -x ELSE x

\* Twice the area under the profile between samples i and i + 1, and under
\* the six samples.
Segment2(i) ==
    (sample[i + 1].time - sample[i].time)
    * (sample[i].depth + sample[i + 1].depth)
Area2 == Segment2(0) + Segment2(1) + Segment2(2) + Segment2(3) + Segment2(4)

\* The samples from i to j differ by the slope of attempt k, to 1 second:
\* | seconds - |depth change| / slope | <= 1.
SlopedSegment(k, i, j) ==
    Abs((sample[j].time - sample[i].time) * SlopeNum(k)
        - SlopeDen(k) * Abs(sample[j].depth - sample[i].depth))
    <= SlopeNum(k)

(***************************************************************************)
(* C1: whenever fake_dc leaves a count n > 0, the first n samples have     *)
(* non-decreasing times, sample 0 is (0, 0) and sample n - 1 has the time  *)
(* max_time and the depth 0.  The branch without an average depth breaks   *)
(* it: with duration 600 and maxdepth 30000 the times are 0, 300, 120.     *)
(***************************************************************************)
C1_TimesNonDecreasing ==
    Done /\ samples > 0 =>
        /\ \A i \in 0..(samples - 2) : sample[i].time <= sample[i + 1].time
        /\ sample[0].time = 0 /\ sample[0].depth = 0
        /\ sample[samples - 1].time = duration
        /\ sample[samples - 1].depth = 0

(***************************************************************************)
(* C2: after fake_dc the count is 0 exactly when the duration or the       *)
(* maximum depth is 0, and else it is 4 or 6.                              *)
(***************************************************************************)
C2_CountZeroFourSix ==
    Done =>
        /\ samples = 0 <=> (duration = 0 \/ maxdepth = 0)
        /\ samples \in {0, 4, 6}

C2_Witness ==
    Done /\ duration # 0 /\ maxdepth = 0 /\ meandepth # 0 /\ samples = 0

(***************************************************************************)
(* C3 as stated: a profile accepted by attempt 1 or 2 has the area         *)
(* avg_depth * max_time to 10 mm*s.                                        *)
(***************************************************************************)
C3_AreaWithinTen ==
    AcceptedBy(1) \/ AcceptedBy(2) =>
        Abs(Area2 - 2 * avg_d * max_t) <= 2 * 10

(***************************************************************************)
(* C3 amended: a profile accepted by attempt 1 or 2 has the area           *)
(* avg_depth * max_time to the rounding of its times to seconds and of     *)
(* its depth to mm: | area - avg_depth * max_time | is at most             *)
(* 1.5 * max_depth + max_time.                                             *)
(***************************************************************************)
C3_AreaWithinRounding ==
    AcceptedBy(1) \/ AcceptedBy(2) =>
        Abs(Area2 - 2 * avg_d * max_t) <= 3 * max_d + 2 * max_t

C3_Witness ==
    /\ AcceptedBy(1)
    /\ duration = 3000 /\ maxdepth = 18000 /\ meandepth = 9000
    /\ sample[1].time = 216
    /\ Abs(Area2 - 2 * avg_d * max_t) > 2 * 10

(***************************************************************************)
(* C4: in a profile accepted with (slope, d_frac) the descent (samples 0   *)
(* to 1), the transition (2 to 3) and the final ascent (4 to 5) each take  *)
(* |depth change| / slope seconds to 1 second.                             *)
(***************************************************************************)
C4_SegmentsShareSlope ==
    \A k \in 1..3 :
        AcceptedBy(k) =>
            /\ SlopedSegment(k, 0, 1)
            /\ SlopedSegment(k, 2, 3)
            /\ SlopedSegment(k, 4, 5)

C4_Witness ==
    /\ AcceptedBy(2)
    /\ sample[1].time > 0
    /\ sample[3].time > sample[2].time
    /\ sample[5].time > sample[4].time

(***************************************************************************)
(* C5: the candidates are tried in the order 1, 2, 3; one is accepted      *)
(* exactly when its rounded times satisfy 0 <= t1 <= t2 <= t3 <= t4 <=     *)
(* max_time; an accepted one sets the times of samples 1..4 and ends       *)
(* fake_dc, a rejected one leaves the samples as they are and the next     *)
(* is tried; nothing runs after fake_dc has returned.                      *)
(***************************************************************************)
AttemptAt(k) ==
    IF k = 1 THEN "attempt1" ELSE IF k = 2 THEN "attempt2"
    ELSE IF k = 3 THEN "attempt3" ELSE "done"

C5_Step ==
    /\ pc # "done"
    /\ pc = "idle" => pc' \in {"attempt1", "done"}
    /\ \A k \in 1..3 :
          pc = AttemptAt(k) =>
              IF InOrder(Candidate(k))
              THEN /\ pc' = "done"
                   /\ \A i \in 1..4 : sample'[i].time = Candidate(k)[i]
                   /\ sample'[0] = sample[0] /\ sample'[5] = sample[5]
              ELSE /\ pc' = AttemptAt(k + 1)
                   /\ sample' = sample

C5_FirstAcceptedCandidate == [][C5_Step]_vars

C5_Witness ==
    /\ AcceptedBy(2)
    /\ \A i \in 1..4 : sample[i].time = Candidate(2)[i]
    /\ Candidate(1)[1] # Candidate(2)[1]

(***************************************************************************)
(* C6 as stated: without an average depth, for a shallow or short dive     *)
(* only samples 1 and 2 hold nonzero values and the count remains 6.       *)
(***************************************************************************)
ShallowOrShort == NoAvgBranch /\ (maxdepth < 10000 \/ duration < 600)

C6_CountRemainsSix ==
    Done /\ ShallowOrShort =>
        /\ samples = 6
        /\ sample[1].depth # 0 /\ sample[2].depth # 0
        /\ \A i \in {0, 3, 4} : sample[i].time = 0 /\ sample[i].depth = 0

(***************************************************************************)
(* C6 amended: without an average depth, for a shallow or short dive the   *)
(* count is 4: sample 1 is (descent, max_depth), sample 2 is               *)
(* (max_time - descent, max_depth) and sample 3 is (max_time, 0), where    *)
(* descent is max_depth / slope rounded, slope the larger of               *)
(* 2 * max_depth / max_time and 5000 / 60; sample 4 stays zero.            *)
(***************************************************************************)
C6_FourPointTrapezoid ==
    Done /\ ShallowOrShort =>
        /\ samples = 4
        /\ sample[1].depth = maxdepth /\ sample[2].depth = maxdepth
        /\ sample[2].time = duration - sample[1].time
        /\ IF 3 * maxdepth >= 125 * duration
           THEN Abs(2 * sample[1].time - duration) <= 1
           ELSE Abs(250 * sample[1].time - 3 * maxdepth) <= 125
        /\ sample[3].time = duration /\ sample[3].depth = 0
        /\ sample[4].time = 0 /\ sample[4].depth = 0

C6_Witness ==
    /\ Done /\ duration = 500 /\ maxdepth = 8000 /\ meandepth = 0
    /\ samples = 4
    /\ sample[1].time = 96 /\ sample[2].time = 404 /\ sample[3].time = 500

(***************************************************************************)
(* C7: set_dc_deviceid never changes a serial or fw_version that is set,   *)
(* whatever entries are presented to match_id; it fills an unset one only  *)
(* from an entry whose deviceid and model are those of the dive computer;  *)
(* and with the deviceid 0 it changes none of deviceid, serial and         *)
(* fw_version.  (arg' is the call made by the step.)                       *)
(***************************************************************************)
C7_Step ==
    /\ serial # NULL => serial' = serial
    /\ fw_version # NULL => fw_version' = fw_version
    /\ serial' # serial =>
          /\ arg'.deviceid = deviceid /\ model # NULL /\ arg'.model = model
          /\ serial' = arg'.serial
    /\ fw_version' # fw_version =>
          /\ arg'.deviceid = deviceid /\ model # NULL /\ arg'.model = model
          /\ fw_version' = arg'.firmware
    /\ pc = "idle" /\ arg'.deviceid = 0 =>
          /\ deviceid' = deviceid /\ serial' = serial
          /\ fw_version' = fw_version
          /\ pc' = "done"
    /\ pc = "done" => UNCHANGED <<deviceid, serial, fw_version>>

C7_NeverOverwrites == [][C7_Step]_vars

C7_Witness ==
    /\ pc = "for_each" /\ presented = MaxEntries
    /\ arg.deviceid = deviceid /\ model # NULL /\ arg.model = model
    /\ arg.serial # NULL /\ serial # NULL /\ serial # arg.serial
    /\ arg.firmware # NULL /\ fw_version = arg.firmware

(***************************************************************************)
(* C8 as stated: an average depth that is not 0 and outside                *)
(* [max_depth / 10, max_depth) is replaced by the smaller of               *)
(* (max_depth + 10000) / 3 and 2 * max_depth / 3, or 1 if that is 0, and   *)
(* so never exceeds 2 * max_depth / 3 unless it is 1; one inside is used   *)
(* unchanged.                                                              *)
(***************************************************************************)
AvgStarted == AvgBranch /\ pc # "idle"
OutsideInterval == meandepth < maxdepth \div 10 \/ meandepth >= maxdepth
OneIfZero(x) == IF x = 0 THEN 1 ELSE x
Min(x, y) == IF x < y THEN x ELSE y

DeepAndLong == NoAvgBranch /\ maxdepth >= 10000 /\ duration >= 600

C9_SafetyStop ==
    Done /\ DeepAndLong =>
        /\ samples = 6
        /\ sample[3].time # 0
        /\ sample[1].depth = maxdepth /\ sample[2].depth = maxdepth
        /\ sample[3].depth = 5000 /\ sample[4].depth = 5000
        /\ sample[4].time - sample[3].time = 180
        /\ IF 3 * maxdepth >= 125 * duration
           THEN Abs(2 * maxdepth * (duration - sample[4].time)
                    - 5000 * duration) <= maxdepth
           ELSE duration - sample[4].time = 60

C9_Witness ==
    /\ Done /\ duration = 1800 /\ maxdepth = 30000 /\ meandepth = 0
    /\ samples = 6
    /\ sample[3].time = 1560 /\ sample[4].time = 1740

(***************************************************************************)
(* C10: when all three attempts are rejected fake_dc returns with the      *)
(* count 6, samples 0..4 at time 0 and depth 0, sample 5 at (max_time, 0), *)
(* the bearing and ndl of every sample -1, and last_manual_time the        *)
(* duration.                                                               *)
(***************************************************************************)
C10_SkeletonLeft ==
    AllRejected =>
        /\ samples = 6
        /\ \A i \in 0..4 : sample[i].time = 0 /\ sample[i].depth = 0
        /\ sample[5].time = duration /\ sample[5].depth = 0
        /\ \A i \in 0..5 : sample[i].bearing = -1 /\ sample[i].ndl = -1
        /\ last_manual_time = duration

C10_Witness ==
    /\ AllRejected
    /\ duration = 10 /\ maxdepth = 100000 /\ meandepth = 30000
    /\ samples = 6 /\ sample[4].time = 0 /\ sample[5].time = 10
====
